---- MODULE Spec2Model ----
(***************************************************************************)
(* Munster Irish Coach: the server relays (chat, speech synthesis, speech  *)
(* transcription in its REST and SDK versions) and the browser client's    *)
(* conversation loop.                                                      *)
(*                                                                         *)
(* Spec        one handler invocation at a time: a request is received,    *)
(*             the handler runs to its outbound call (or answers), the     *)
(*             provider's outcome arrives and the handler runs to its end. *)
(* ClientSpec  the React client: password gate, start, send, replies,      *)
(*             spoken replies.  ClientFairSpec adds that every chat        *)
(*             request settles and that React re-renders.                  *)
(* ListenSpec  the client's voice input: the mic button and the events of  *)
(*             the speech recognition objects.                             *)
(***************************************************************************)
EXTENDS Integers, Sequences, FiniteSets, TLC

VARIABLES
    env,        \* process.env: which variables are set to a non-empty value
    handler,    \* the handler of the invocation in progress ("none" before the first)
    req,        \* its request: [method, body]
    pc,         \* "idle" | "awaiting" (outbound call issued) | "done"
    calls,      \* outbound provider calls of this invocation, in order
    responses,  \* responses sent to the caller by this invocation, in order
    outcome,    \* the provider's outcome once it arrived
    thrown,     \* the exception caught at the handler boundary, if any
    \* the browser client (App)
    password,       \* useState: the password typed so far
    authenticated,  \* useState
    started,        \* useState
    input,          \* useState: the text of the input box
    loading,        \* useState
    error,          \* useState: null (<< >>) or the error string
    suggestions,    \* useState
    messages,       \* useState: the bubbles shown
    history,        \* useRef: the messages array sent to the chat relay
    view,           \* the state as last rendered: what the event handlers' closures read
    chatReqs,       \* fetch("/api/chat") requests in flight: their messages arrays
    timers,         \* pending setTimeout(() => speak(...), 300): their texts
    speaking,       \* useState
    speakReqs,      \* fetch("/api/speak") requests in flight: their texts
    audios,         \* the Audio elements that play, that the current one had paused, and
                    \* the current one: "playing" | "paused" | "ended"
    audioRef,       \* useRef: index in audios of the current element, 0 for null
    synth,          \* window.speechSynthesis: the utterances queued or being spoken
    lastSend,       \* what the send of the last step did: "sent" | "empty" | "busy", and
                    \* "none" when the last step called no send
    \* voice input (App)
    listening,        \* useState
    viewListening,    \* the listening flag as last rendered: what the mic button reads
    recognitionRef,   \* useRef: index in recognitions of the current object, 0 for null
    recognitions,     \* the SpeechRecognition objects created:
                      \* "starting" | "running" | "stopping" | "ended"
    micStopped        \* the last call of the mic button was stopListening

serverVars == <<env, handler, req, pc, calls, responses, outcome, thrown>>

clientVars ==
    <<password, authenticated, started, input, loading, error, suggestions, messages,
      history, view, chatReqs, timers, speaking, speakReqs, audios, audioRef, synth, lastSend>>

listenVars == <<listening, viewListening, recognitionRef, recognitions, micStopped>>

vars == <<serverVars, clientVars, listenVars>>

----------------------------------------------------------------------------
(* Strings.  A JavaScript string is a sequence of chunks; a chunk is either *)
(* a literal piece of text or a serialised JSON document (its value and     *)
(* whether it is written compactly or with insignificant whitespace).       *)
(* Concatenation (+) is \o and the empty string '' is << >>.                *)

Str(s) == <<[fmt |-> "lit", lit |-> s, val |-> {}]>>

Doc(v, f) == <<[fmt |-> f, lit |-> "", val |-> v]>>

\* the JSON text of a value that is not an object: null or a number
Scalar(s) == <<[fmt |-> "scalar", lit |-> s, val |-> {}]>>

\* a || b on strings: b when a is undefined or ''
OrElse(a, b) == IF a = <<>> THEN b ELSE a

\* s occurs in t as a contiguous piece
Contains(t, s) == \E i \in 0..(Len(t) - Len(s)) : SubSeq(t, i + 1, i + Len(s)) = s

(* JSON values.  An object is the set of its <<path, leaf string>> pairs;   *)
(* {} is the empty object.  obj.a?.[0]?.b is the leaf at <<"a","0","b">>,   *)
(* undefined when no such pair exists.                                      *)

Field(k, text) == {<<<<k>>, text>>}

\* { k: v } for an object v
Nest(k, v) == {<<<<k>> \o p[1], p[2]>> : p \in v}

Has(v, path) == \E p \in v : p[1] = path

\* v.path || '' : the leaf at path, '' when it is missing
LeafOrEmpty(v, path) == IF Has(v, path) THEN (CHOOSE p \in v : p[1] = path)[2] ELSE <<>>

Keys(v) == {p[1][1] : p \in v}

\* JSON.stringify(v): always the compact serialisation
JSONstringify(v) == Doc(v, "compact")

\* JSON.parse / response.json(): throws SyntaxError on anything but one
\* document; val holds the properties of the value (a number has none) and
\* null tells the value null, any property access on which throws TypeError
JSONparse(t) ==
    IF Len(t) = 1 /\ t[1].fmt \in {"compact", "spaced"}
    THEN [ok |-> TRUE, val |-> t[1].val, msg |-> <<>>, null |-> FALSE]
    ELSE IF Len(t) = 1 /\ t[1].fmt = "scalar"
    THEN [ok |-> TRUE, val |-> {}, msg |-> <<>>, null |-> (t[1].lit = "null")]
    ELSE [ok |-> FALSE, val |-> {}, msg |-> Str("Unexpected token in JSON"), null |-> FALSE]

\* Buffer.from(audio, 'base64'): the decoded bytes; characters outside the
\* base64 alphabet are skipped, never an exception
Base64Decode(text) ==
    IF text = Str("AAEC") THEN <<0, 1, 2>>
    ELSE IF text = Str("/w==") THEN <<255>>
    ELSE <<>>

----------------------------------------------------------------------------
(* Responses and outbound calls *)

Response(status, type, json, bytes) ==
    [status |-> status, type |-> type, json |-> json, bytes |-> bytes]

\* res.status(s).json(v)
ResJson(status, v) == Response(status, "json", v, <<>>)

\* res.status(s).end()
ResEnd(status) == Response(status, "end", {}, <<>>)

\* res.status(s).send(buffer) with Content-Type audio/mpeg
ResAudio(status, bytes) == Response(status, "audio", {}, bytes)

Call(to, key, body, audio) == [to |-> to, key |-> key, body |-> body, audio |-> audio]

NoThrow == [raised |-> FALSE, msg |-> <<>>]

Threw(msg) == [raised |-> TRUE, msg |-> msg]

\* the handler answered without an outbound call
Answered(resp) == [pc |-> "done", calls |-> <<>>, responses |-> <<resp>>, thrown |-> NoThrow]

\* an exception before the outbound call, answered by the catch block
Caught(resp, msg) == [pc |-> "done", calls |-> <<>>, responses |-> <<resp>>, thrown |-> Threw(msg)]

\* the handler issued its outbound call and awaits the provider
Awaiting(call) == [pc |-> "awaiting", calls |-> <<call>>, responses |-> <<>>, thrown |-> NoThrow]

\* the continuation after the provider's outcome
Finished(resp) == [responses |-> <<resp>>, thrown |-> NoThrow]

FinishedCaught(resp, msg) == [responses |-> <<resp>>, thrown |-> Threw(msg)]

IsOk(o) == o.kind = "response" /\ o.status \in 200..299

----------------------------------------------------------------------------
(* Inputs: requests, environments and provider outcomes *)

Methods == {"POST", "GET", "OPTIONS"}

\* a JSON text is written compactly or with insignificant whitespace
Formats == {"compact", "spaced"}

NoBody == [def |-> FALSE, val |-> {}]

Body(v) == [def |-> TRUE, val |-> v]

\* a request as the handler sees it: the body text received and req.body,
\* the value the JSON body parser made of it (undefined without a body)
Request(m, b) ==
    [method |-> m, body |-> b, raw |-> IF b.def THEN JSONstringify(b.val) ELSE <<>>]

NoRequest == Request("none", NoBody)

Environments ==
    [AZURE_SPEECH_KEY : BOOLEAN, AZURE_SPEECH_REGION : BOOLEAN,
     ELEVENLABS_API_KEY : BOOLEAN, ANTHROPIC_API_KEY : BOOLEAN]

TranscribeBodies ==
    {NoBody, Body({}), Body(Field("audio", <<>>)), Body(Field("audio", Str("AAEC")))}

SpeakBodies == {NoBody, Body({}), Body(Field("text", Str("Dia duit")))}

ChatPayload ==
    {<<<<"model">>, Str("claude-sonnet-4-20250514")>>,
     <<<<"messages", "0", "role">>, Str("user")>>,
     <<<<"messages", "0", "content">>, Str("Please start the lesson!")>>}

\* app.use(express.json()): req.body is the parsed JSON text of the request
ChatRequests ==
    {[method |-> "POST", body |-> Body(JSONparse(t).val), raw |-> t] :
        t \in {Doc(v, f) : v \in {{}, ChatPayload}, f \in Formats}}

Outcome(kind, status, body, bytes, msg, text, language) ==
    [kind |-> kind, status |-> status, body |-> body, bytes |-> bytes,
     msg |-> msg, text |-> text, language |-> language]

NoOutcome == Outcome("none", 0, <<>>, <<>>, <<>>, <<>>, <<>>)

\* fetch() rejected: the provider was not reached
Rejected(msg) == Outcome("reject", 0, <<>>, <<>>, msg, <<>>, <<>>)

\* fetch() resolved with an HTTP response
Replied(status, body, bytes) == Outcome("response", status, body, bytes, <<>>, <<>>, <<>>)

\* exception messages: error.message may be empty
Messages == {Str("fetch failed"), <<>>}

Rejections == {Rejected(m) : m \in Messages}

ProviderStatuses == {200, 401, 502}

NotJson == Str("<html>502 Bad Gateway</html>")

\* Azure Fast Transcription results
AzureFull ==
    {<<<<"combinedPhrases", "0", "text">>, Str("Dia duit")>>,
     <<<<"phrases", "0", "text">>, Str("Dia duit")>>,
     <<<<"phrases", "0", "locale">>, Str("ga-IE")>>}

AzureNoLocale == {<<<<"combinedPhrases", "0", "text">>, Str("hello")>>}

AzureEmptyText ==
    {<<<<"combinedPhrases", "0", "text">>, <<>>>>,
     <<<<"phrases", "0", "locale">>, Str("en-IE")>>}

AzureResults == {AzureFull, AzureNoLocale, AzureEmptyText, {}}

AzureError == {<<<<"code">>, Str("InvalidAudio")>>}

AzureBodies ==
    {Doc(v, f) : v \in AzureResults \cup {AzureError}, f \in Formats}
        \cup {NotJson, Str("Unauthorized"), <<>>}

AzureOutcomes ==
    {Replied(s, b, <<>>) : s \in ProviderStatuses, b \in AzureBodies} \cup Rejections

\* the SDK's recognizeOnceAsync: a result with a reason, or the error callback
SdkOutcomes ==
    {Outcome("RecognizedSpeech", 0, <<>>, <<>>, <<>>, Str("Dia duit"), l) : l \in {Str("ga-IE"), <<>>}}
        \cup {Outcome(k, 0, <<>>, <<>>, <<>>, <<>>, <<>>) : k \in {"NoMatch", "Other"}}
        \cup {Outcome(k, 0, <<>>, <<>>, m, <<>>, <<>>) :
                k \in {"Canceled", "error"}, m \in {Str("Connection failure"), <<>>}}

ElevenLabsError == {<<<<"detail", "status">>, Str("quota_exceeded")>>}

ElevenLabsBodies == {Doc(ElevenLabsError, f) : f \in Formats} \cup {NotJson, <<>>}

Mp3 == <<73, 68, 51>>

ElevenLabsOutcomes ==
    {Replied(s, b, y) : s \in ProviderStatuses, b \in ElevenLabsBodies, y \in {Mp3}}
        \cup Rejections

AnthropicReply ==
    {<<<<"content", "0", "type">>, Str("text")>>,
     <<<<"content", "0", "text">>, Str("Dia duit!")>>}

AnthropicError ==
    {<<<<"type">>, Str("error")>>,
     <<<<"error", "type">>, Str("authentication_error")>>}

AnthropicBodies ==
    {Doc(v, f) : v \in {AnthropicReply, AnthropicError}, f \in Formats} \cup {NotJson}

AnthropicOutcomes ==
    {Replied(s, b, <<>>) : s \in ProviderStatuses, b \in AnthropicBodies} \cup Rejections

\* the form-data stream read into a Buffer: ends, or emits 'error'
FormOutcomes == {NoThrow, Threw(Str("stream error")), Threw(<<>>)}

----------------------------------------------------------------------------
(* Transcription relay, REST version (api/transcribe.js) *)

MethodNotAllowed == ResJson(405, Field("error", Str("Method not allowed")))

\* OPTIONS preflight and method gate: the response it sends, << >> when it passes
transcribeGate(method) ==
    IF method = "OPTIONS" THEN <<ResEnd(200)>>
    ELSE IF method # "POST" THEN <<MethodNotAllowed>>
    ELSE <<>>

AzureNotConfigured ==
    ResJson(500, Field("error",
        Str("Azure Speech not configured. Add AZURE_SPEECH_KEY and AZURE_SPEECH_REGION to Vercel environment variables.")))

\* credential lookup: !speechKey || !speechRegion
transcribeConfig(e) ==
    IF ~e.AZURE_SPEECH_KEY \/ ~e.AZURE_SPEECH_REGION THEN <<AzureNotConfigured>> ELSE <<>>

\* const { audio } = req.body || {}
audioOf(b) == LeafOrEmpty(IF b.def THEN b.val ELSE {}, <<"audio">>)

NoAudio ==
    ResJson(400, Field("error", Str("No audio data received. Expected JSON with \"audio\" field.")))

\* if (!audio)
transcribeInput(b) == IF audioOf(b) = <<>> THEN <<NoAudio>> ELSE <<>>

\* the "definition" part of the multipart form
transcribeDefinition ==
    {<<<<"locales", "0">>, Str("en-IE")>>,
     <<<<"languageIdentification", "candidateLocales", "0">>, Str("en-IE")>>,
     <<<<"languageIdentification", "candidateLocales", "1">>, Str("ga-IE")>>}

\* the multipart POST to the Fast Transcription endpoint
transcribeCall(b, e) ==
    Call("azure-rest", e.AZURE_SPEECH_KEY, JSONstringify(transcribeDefinition),
         Base64Decode(audioOf(b)))

\* transcribeCatch without the 'Unknown error' fallback
transcribeCatchNoFallback(msg) ==
    ResJson(500, Field("error", Str("Transcription failed: ") \o msg))

\* catch (error): 'Transcription failed: ' + (error.message || 'Unknown error')
transcribeCatch(msg) ==
    ResJson(500, Field("error", Str("Transcription failed: ") \o OrElse(msg, Str("Unknown error"))))

\* transcribeFailure without the provider's error text
transcribeFailureNoDetail(o) ==
    ResJson(502, Field("error", Str("Azure transcription failed")))

\* if (!azureResponse.ok): 502 with the provider's error text
transcribeFailure(o) ==
    ResJson(502, Field("error", Str("Azure transcription failed: ") \o o.body))

\* transcribeResult reading the language from the combined phrase
transcribeResultWrongPath(result) ==
    ResJson(200,
        Field("text", LeafOrEmpty(result, <<"combinedPhrases", "0", "text">>))
            \cup Field("language", LeafOrEmpty(result, <<"combinedPhrases", "0", "locale">>)))

\* the transcript and detected language taken from the provider's result
transcribeResult(result) ==
    ResJson(200,
        Field("text", LeafOrEmpty(result, <<"combinedPhrases", "0", "text">>))
            \cup Field("language", LeafOrEmpty(result, <<"phrases", "0", "locale">>)))

\* transcribeStart with the credential lookup before the method gate
transcribeStartConfigFirst(r, e, form) ==
    IF transcribeConfig(e) # <<>> THEN Answered(transcribeConfig(e)[1])
    ELSE IF transcribeGate(r.method) # <<>> THEN Answered(transcribeGate(r.method)[1])
    ELSE IF transcribeInput(r.body) # <<>> THEN Answered(transcribeInput(r.body)[1])
    ELSE IF form.raised THEN Caught(transcribeCatch(form.msg), form.msg)
    ELSE Awaiting(transcribeCall(r.body, e))

\* the handler up to its outbound call
transcribeStart(r, e, form) ==
    IF transcribeGate(r.method) # <<>> THEN Answered(transcribeGate(r.method)[1])
    ELSE IF transcribeConfig(e) # <<>> THEN Answered(transcribeConfig(e)[1])
    ELSE IF transcribeInput(r.body) # <<>> THEN Answered(transcribeInput(r.body)[1])
    ELSE IF form.raised THEN Caught(transcribeCatch(form.msg), form.msg)
    ELSE Awaiting(transcribeCall(r.body, e))

\* the handler from the provider's outcome to its end
transcribeSettle(o) ==
    IF o.kind = "reject" THEN FinishedCaught(transcribeCatch(o.msg), o.msg)
    ELSE IF ~IsOk(o) THEN Finished(transcribeFailure(o))
    ELSE IF ~JSONparse(o.body).ok
         THEN FinishedCaught(transcribeCatch(JSONparse(o.body).msg), JSONparse(o.body).msg)
    ELSE Finished(transcribeResult(JSONparse(o.body).val))

(* Transcription relay, earlier REST version: the same gate, checks, error  *)
(* forwarding and result; the form is passed to fetch as a stream and the   *)
(* definition lists both locales.                                           *)

transcribeV1Definition ==
    {<<<<"locales", "0">>, Str("ga-IE")>>, <<<<"locales", "1">>, Str("en-IE")>>}

transcribeV1Call(b, e) ==
    Call("azure-rest", e.AZURE_SPEECH_KEY, JSONstringify(transcribeV1Definition),
         Base64Decode(audioOf(b)))

transcribeV1Failure(o) ==
    ResJson(502, Field("error", Str("Azure transcription failed: ") \o o.body))

transcribeV1Start(r, e) ==
    IF transcribeGate(r.method) # <<>> THEN Answered(transcribeGate(r.method)[1])
    ELSE IF transcribeConfig(e) # <<>> THEN Answered(transcribeConfig(e)[1])
    ELSE IF transcribeInput(r.body) # <<>> THEN Answered(transcribeInput(r.body)[1])
    ELSE Awaiting(transcribeV1Call(r.body, e))

transcribeV1Settle(o) ==
    IF o.kind = "reject" THEN FinishedCaught(transcribeCatch(o.msg), o.msg)
    ELSE IF ~IsOk(o) THEN Finished(transcribeV1Failure(o))
    ELSE IF ~JSONparse(o.body).ok
         THEN FinishedCaught(transcribeCatch(JSONparse(o.body).msg), JSONparse(o.body).msg)
    ELSE Finished(transcribeResult(JSONparse(o.body).val))

(* Transcription relay, SDK version *)

\* Only accept POST requests
sdkGate(method) == IF method # "POST" THEN <<MethodNotAllowed>> ELSE <<>>

sdkLanguages == {<<<<"0">>, Str("ga-IE")>>, <<<<"1">>, Str("en-IE")>>}

\* recognizer.recognizeOnceAsync over the pushed audio
sdkCall(b, e) ==
    Call("azure-sdk", e.AZURE_SPEECH_KEY, JSONstringify(sdkLanguages), Base64Decode(audioOf(b)))

\* new Error(cancellation.errorDetails || 'Recognition canceled').message and
\* new Error(error).message
sdkErrorMessage(o) ==
    IF o.kind = "Canceled" THEN OrElse(o.msg, Str("Recognition canceled")) ELSE o.msg

\* sdkTranscript without the language
sdkTranscriptTextOnly(o) == Field("text", IF o.kind = "RecognizedSpeech" THEN o.text ELSE <<>>)

\* the transcript the promise resolves with
sdkTranscript(o) ==
    IF o.kind = "RecognizedSpeech"
    THEN Field("text", o.text) \cup Field("language", OrElse(o.language, Str("unknown")))
    ELSE Field("text", <<>>) \cup Field("language", <<>>)

sdkStart(r, e) ==
    IF sdkGate(r.method) # <<>> THEN Answered(sdkGate(r.method)[1])
    ELSE IF transcribeConfig(e) # <<>> THEN Answered(transcribeConfig(e)[1])
    ELSE IF transcribeInput(r.body) # <<>> THEN Answered(transcribeInput(r.body)[1])
    ELSE Awaiting(sdkCall(r.body, e))

sdkSettle(o) ==
    IF o.kind \in {"Canceled", "error"}
    THEN FinishedCaught(transcribeCatch(sdkErrorMessage(o)), sdkErrorMessage(o))
    ELSE Finished(ResJson(200, sdkTranscript(o)))

----------------------------------------------------------------------------
(* Speech relay, serverless function (api/speak.js) *)

\* speakGate rejecting GET only
speakGateGetOnly(method) == IF method = "GET" THEN <<MethodNotAllowed>> ELSE <<>>

speakGate(method) == IF method # "POST" THEN <<MethodNotAllowed>> ELSE <<>>

VoiceFailed == ResJson(500, Field("error", Str("Voice failed")))

\* { text, model_id, voice_settings }: JSON.stringify drops an undefined text
speakPayload(b) ==
    (IF Has(b.val, <<"text">>) THEN Field("text", LeafOrEmpty(b.val, <<"text">>)) ELSE {})
        \cup {<<<<"model_id">>, Str("eleven_flash_v2_5")>>,
              <<<<"voice_settings", "stability">>, Str("0.5")>>,
              <<<<"voice_settings", "similarity_boost">>, Str("0.75")>>}

speakCall(b, e) ==
    Call("elevenlabs", e.ELEVENLABS_API_KEY, JSONstringify(speakPayload(b)), <<>>)

\* speakFailure without its return: the audio is sent after the error
speakFailureFallsThrough(o) ==
    IF ~JSONparse(o.body).ok
    THEN FinishedCaught(VoiceFailed, JSONparse(o.body).msg)
    ELSE [responses |-> <<ResJson(500, Nest("error", JSONparse(o.body).val)), ResAudio(200, o.bytes)>>,
          thrown |-> NoThrow]

\* if (!response.ok): err = await response.json(); 500 { error: err }
speakFailure(o) ==
    IF ~JSONparse(o.body).ok
    THEN FinishedCaught(VoiceFailed, JSONparse(o.body).msg)
    ELSE Finished(ResJson(500, Nest("error", JSONparse(o.body).val)))

speakStart(r, e) ==
    IF speakGate(r.method) # <<>> THEN Answered(speakGate(r.method)[1])
    ELSE IF ~r.body.def
         THEN Caught(VoiceFailed, Str("Cannot destructure property 'text' of 'req.body'"))
    ELSE Awaiting(speakCall(r.body, e))

speakSettle(o) ==
    IF o.kind = "reject" THEN FinishedCaught(VoiceFailed, o.msg)
    ELSE IF ~IsOk(o) THEN speakFailure(o)
    ELSE Finished(ResAudio(200, o.bytes))

(* Speech relay, Express route app.post('/api/speak') *)

appSpeakFailure(o) ==
    IF ~JSONparse(o.body).ok
    THEN FinishedCaught(VoiceFailed, JSONparse(o.body).msg)
    ELSE Finished(ResJson(500, Nest("error", JSONparse(o.body).val)))

appSpeakStart(r, e) ==
    IF ~r.body.def
    THEN Caught(VoiceFailed, Str("Cannot destructure property 'text' of 'req.body'"))
    ELSE Awaiting(speakCall(r.body, e))

appSpeakSettle(o) ==
    IF o.kind = "reject" THEN FinishedCaught(VoiceFailed, o.msg)
    ELSE IF ~IsOk(o) THEN appSpeakFailure(o)
    ELSE Finished(ResAudio(200, o.bytes))

(* Chat relay, Express route app.post('/api/chat') *)

SomethingWentWrong == ResJson(500, Field("error", Str("Something went wrong")))

\* chatCall forwarding the messages only
chatCallMessagesOnly(b, e) ==
    Call("anthropic", e.ANTHROPIC_API_KEY,
         JSONstringify({p \in b.val : p[1][1] = "messages"}), <<>>)

\* body: JSON.stringify(req.body), with the x-api-key header from the environment
chatCall(b, e) == Call("anthropic", e.ANTHROPIC_API_KEY, JSONstringify(b.val), <<>>)

chatStart(r, e) == Awaiting(chatCall(r.body, e))

\* data = await response.json(); res.json(data)
chatSettle(o) ==
    IF o.kind = "reject" THEN FinishedCaught(SomethingWentWrong, o.msg)
    ELSE IF ~JSONparse(o.body).ok
         THEN FinishedCaught(SomethingWentWrong, JSONparse(o.body).msg)
    ELSE Finished(ResJson(200, JSONparse(o.body).val))

\* the body text a response carries: res.json(v) sends JSON.stringify(v)
ResponseText(resp) == IF resp.type = "json" THEN JSONstringify(resp.json) ELSE <<>>

----------------------------------------------------------------------------
(* The handler invocations *)

TranscribeRequests == {Request(m, b) : m \in Methods, b \in TranscribeBodies}

SpeakRequests == {Request(m, b) : m \in Methods, b \in SpeakBodies}

\* Express routes the POST requests of a path to its handler
AppSpeakRequests == {Request("POST", b) : b \in SpeakBodies}

\* the useState / useRef initial values of App
ClientInit ==
    /\ password = ""
    /\ authenticated = FALSE
    /\ started = FALSE
    /\ input = <<>>
    /\ loading = FALSE
    /\ error = <<>>
    /\ suggestions = <<>>
    /\ messages = <<>>
    /\ history = <<>>
    /\ view = [loading |-> FALSE, suggestions |-> <<>>, speaking |-> FALSE, shown |-> 0]
    /\ chatReqs = <<>>
    /\ timers = <<>>
    /\ speaking = FALSE
    /\ speakReqs = <<>>
    /\ audios = <<>>
    /\ audioRef = 0
    /\ synth = <<>>
    /\ lastSend = "none"
    /\ listening = FALSE
    /\ viewListening = FALSE
    /\ recognitionRef = 0
    /\ recognitions = <<>>
    /\ micStopped = FALSE

Init ==
    /\ env \in Environments
    /\ handler = "none"
    /\ req = NoRequest
    /\ pc = "idle"
    /\ calls = <<>>
    /\ responses = <<>>
    /\ outcome = NoOutcome
    /\ thrown = NoThrow
    /\ ClientInit

\* a request arrives and handler h runs to its first await or to its end
Begin(h, r, s) ==
    /\ pc \in {"idle", "done"}
    /\ handler' = h
    /\ req' = r
    /\ pc' = s.pc
    /\ calls' = s.calls
    /\ responses' = s.responses
    /\ thrown' = s.thrown
    /\ outcome' = NoOutcome
    /\ UNCHANGED <<env, clientVars, listenVars>>

\* the provider's outcome o arrives and handler h runs to its end
Settle(h, o, s) ==
    /\ pc = "awaiting"
    /\ handler = h
    /\ outcome' = o
    /\ pc' = "done"
    /\ responses' = responses \o s.responses
    /\ thrown' = s.thrown
    /\ UNCHANGED <<env, handler, req, calls, clientVars, listenVars>>

TranscribeBegin ==
    \E r \in TranscribeRequests, f \in FormOutcomes :
        Begin("transcribe", r, transcribeStart(r, env, f))

TranscribeSettle == \E o \in AzureOutcomes : Settle("transcribe", o, transcribeSettle(o))

TranscribeV1Begin ==
    \E r \in TranscribeRequests : Begin("transcribeV1", r, transcribeV1Start(r, env))

TranscribeV1Settle == \E o \in AzureOutcomes : Settle("transcribeV1", o, transcribeV1Settle(o))

SdkBegin == \E r \in TranscribeRequests : Begin("transcribeSdk", r, sdkStart(r, env))

SdkSettle == \E o \in SdkOutcomes : Settle("transcribeSdk", o, sdkSettle(o))

SpeakBegin == \E r \in SpeakRequests : Begin("speak", r, speakStart(r, env))

SpeakSettle == \E o \in ElevenLabsOutcomes : Settle("speak", o, speakSettle(o))

AppSpeakBegin == \E r \in AppSpeakRequests : Begin("appSpeak", r, appSpeakStart(r, env))

AppSpeakSettle == \E o \in ElevenLabsOutcomes : Settle("appSpeak", o, appSpeakSettle(o))

ChatBegin == \E r \in ChatRequests : Begin("chat", r, chatStart(r, env))

ChatSettle == \E o \in AnthropicOutcomes : Settle("chat", o, chatSettle(o))

Next ==
    \/ TranscribeBegin
    \/ TranscribeSettle
    \/ TranscribeV1Begin
    \/ TranscribeV1Settle
    \/ SdkBegin
    \/ SdkSettle
    \/ SpeakBegin
    \/ SpeakSettle
    \/ AppSpeakBegin
    \/ AppSpeakSettle
    \/ ChatBegin
    \/ ChatSettle

Spec == Init /\ [][Next]_vars

----------------------------------------------------------------------------
(* The browser client (App) *)

MaxHistory == 2   \* entries of the conversation history

MaxSpeak == 2     \* speak calls in flight and utterances queued at once

Min(S) == CHOOSE x \in S : \A y \in S : x <= y

Max(S) == CHOOSE x \in S : \A y \in S : x >= y

RemoveAt(q, i) == SubSeq(q, 1, i - 1) \o SubSeq(q, i + 1, Len(q))

IsSpace(c) == c.fmt = "lit" /\ c.lit = " "

\* input.trim()
Trim(t) ==
    LET keep == {i \in 1..Len(t) : ~IsSpace(t[i])}
    IN  IF keep = {} THEN <<>> ELSE SubSeq(t, Min(keep), Max(keep))

IsBold(c) == c.fmt = "lit" /\ c.lit = "**"

\* text.replace(/\*\*/g, "")
StripBold(t) == SelectSeq(t, LAMBDA c : ~IsBold(c))

\* a possibly undefined string
Undefined == [def |-> FALSE, s |-> <<>>]

Defined(t) == [def |-> TRUE, s |-> t]

\* obj.k: undefined when the object has no such field
LeafOf(v, path) == IF Has(v, path) THEN Defined(LeafOrEmpty(v, path)) ELSE Undefined

\* a || b on possibly undefined strings
Either(a, b) == IF a.def /\ a.s # <<>> THEN a ELSE b

\* the object or array under key k
Sub(v, k) == {<<Tail(p[1]), p[2]>> : p \in {q \in v : Len(q[1]) > 1 /\ q[1][1] = k}}

Indices == <<"0", "1", "2">>

\* an array of strings as a sequence
ListOf(v) ==
    LET n == Cardinality({i \in 1..Len(Indices) : Has(v, <<Indices[i]>>)})
    IN  [i \in 1..n |-> LeafOrEmpty(v, <<Indices[i]>>)]

PASSWORD == "luke123"

Passwords == {PASSWORD, "wrong"}

InputTexts == {<<>>, Str(" "), Str(" ") \o Str("Conas ata tu?")}

StartMessage == [role |-> "user", content |-> Str("Please start the lesson!")]

ConnectError == Str("Couldn't connect to Finbar. Please try again.")

\* replies in the shape the system prompt asks for
CoachJson ==
    {<<<<"message">>, Str("**") \o Str("Dia duit") \o Str("**") \o Str(" means hello")>>,
     <<<<"message_spoken">>, Str("JEE-uh GWITCH means hello")>>,
     <<<<"words", "0", "irish">>, Str("Dia duit")>>,
     <<<<"suggestions", "0">>, Str("Dia is Muire duit")>>}

NoMessageJson == {<<<<"reply">>, Str("Dia duit")>>}

\* reply texts: the JSON asked for after a few words of prose, a JSON object
\* of another shape, plain prose, and the JSON texts null and 42
RawReplies ==
    {Str("Seo duit: ") \o Doc(CoachJson, "compact"), Doc(NoMessageJson, "compact"),
     Str("Dia duit!"), Scalar("null"), Scalar("42")}

\* the provider's message envelope around a reply text
Envelope(raw) ==
    {<<<<"content", "0", "type">>, Str("text")>>, <<<<"content", "0", "text">>, raw>>}

\* what fetch("/api/chat") can settle with
ClientChatOutcomes ==
    {Replied(200, Doc(Envelope(raw), "compact"), <<>>) : raw \in RawReplies}
        \cup {Replied(200, Doc(AnthropicError, "compact"), <<>>),
              Replied(500, Doc(Field("error", Str("Something went wrong")), "compact"), <<>>),
              Replied(502, NotJson, <<>>),
              Rejected(Str("Failed to fetch"))}

\* what fetch("/api/speak") can settle with
ClientSpeakOutcomes ==
    {Replied(200, <<>>, Mp3),
     Replied(500, Doc(Field("error", Str("Voice failed")), "compact"), <<>>),
     Rejected(Str("Failed to fetch"))}

\* raw.match(/\{[\s\S]*\}/): from the first opening brace to the last closing
\* one, the whole text when there is none
BraceMatch(raw) ==
    LET docs == {i \in 1..Len(raw) : raw[i].fmt \in Formats}
    IN  IF docs = {} THEN raw ELSE SubSeq(raw, Min(docs), Max(docs))

\* parsed: JSON.parse of the match, or the fallback { message: raw, words: [],
\* suggestions: [] } when it throws; throws tells that parsed is null, on
\* which parsed.message throws TypeError
ParseReply(raw) ==
    LET p == JSONparse(BraceMatch(raw))
    IN  IF p.ok
        THEN [message |-> LeafOf(p.val, <<"message">>),
              spoken |-> LeafOf(p.val, <<"message_spoken">>),
              words |-> Sub(p.val, "words"),
              suggestions |-> ListOf(Sub(p.val, "suggestions")),
              throws |-> p.null]
        ELSE [message |-> Defined(raw), spoken |-> Undefined, words |-> {},
              suggestions |-> <<>>, throws |-> FALSE]

\* what React renders from the state after the step
Rendered ==
    [loading |-> loading', suggestions |-> suggestions', speaking |-> speaking',
     shown |-> Len(messages')]

\* a discrete event (click, key) ends with a synchronous re-render
RenderNow == view' = Rendered

OnPasswordScreen == ~authenticated

OnStartScreen == authenticated /\ ~started

OnChatScreen == authenticated /\ started

ClientStart == Init /\ env = [AZURE_SPEECH_KEY |-> TRUE, AZURE_SPEECH_REGION |-> TRUE,
                              ELEVENLABS_API_KEY |-> TRUE, ANTHROPIC_API_KEY |-> TRUE]

\* onChange of the password field
TypePassword ==
    /\ OnPasswordScreen
    /\ \E p \in Passwords : password' = p
    /\ UNCHANGED <<authenticated, started, input, loading, error, suggestions, messages,
                   history, view, chatReqs, timers, speaking, speakReqs, audios, audioRef, synth>>
    /\ lastSend' = "none"
    /\ UNCHANGED <<serverVars, listenVars>>

\* ClickUnlock without the comparison: any password unlocks
ClickUnlockAnyPassword ==
    /\ OnPasswordScreen
    /\ authenticated' = TRUE
    /\ UNCHANGED <<password, started, input, loading, error, suggestions, messages,
                   history, view, chatReqs, timers, speaking, speakReqs, audios, audioRef, synth>>
    /\ lastSend' = "none"
    /\ UNCHANGED <<serverVars, listenVars>>

\* the Unlock button: alert("Incorrect password") on a mismatch
ClickUnlock ==
    /\ OnPasswordScreen
    /\ authenticated' = (password = PASSWORD)
    /\ UNCHANGED <<password, started, input, loading, error, suggestions, messages,
                   history, view, chatReqs, timers, speaking, speakReqs, audios, audioRef, synth>>
    /\ lastSend' = "none"
    /\ UNCHANGED <<serverVars, listenVars>>

\* Enter in the password field
PasswordEnter ==
    /\ OnPasswordScreen
    /\ authenticated' = (password = PASSWORD)
    /\ UNCHANGED <<password, started, input, loading, error, suggestions, messages,
                   history, view, chatReqs, timers, speaking, speakReqs, audios, audioRef, synth>>
    /\ lastSend' = "none"
    /\ UNCHANGED <<serverVars, listenVars>>

\* callClaude with the loading flag left alone
callClaudeNoFlag(userMsg) ==
    LET pushed == IF userMsg.def /\ userMsg.s # <<>>
                  THEN Append(history, [role |-> "user", content |-> userMsg.s])
                  ELSE history
        msgs == IF Len(pushed) > 0 THEN pushed ELSE <<StartMessage>>
    IN  /\ loading' = loading
        /\ error' = <<>>
        /\ history' = pushed
        /\ chatReqs' = Append(chatReqs, msgs)

\* callClaude up to its fetch: userMsg is null (undefined) or the user's text
callClaude(userMsg) ==
    LET pushed == IF userMsg.def /\ userMsg.s # <<>>
                  THEN Append(history, [role |-> "user", content |-> userMsg.s])
                  ELSE history
        msgs == IF Len(pushed) > 0 THEN pushed ELSE <<StartMessage>>
    IN  /\ loading' = TRUE
        /\ error' = <<>>
        /\ history' = pushed
        /\ chatReqs' = Append(chatReqs, msgs)

\* the start button: setStarted(true); callClaude(null)
ClickStart ==
    /\ OnStartScreen
    /\ started' = TRUE
    /\ callClaude(Undefined)
    /\ UNCHANGED <<password, authenticated, input, suggestions, messages, timers, speaking,
                   speakReqs, audios, audioRef, synth>>
    /\ lastSend' = "none"
    /\ UNCHANGED <<serverVars, listenVars>>
    /\ RenderNow

\* onChange of the input box
TypeInput ==
    /\ OnChatScreen
    /\ \E t \in InputTexts : input' = t
    /\ UNCHANGED <<password, authenticated, started, loading, error, suggestions, messages,
                   history, chatReqs, timers, speaking, speakReqs, audios, audioRef, synth>>
    /\ lastSend' = "none"
    /\ UNCHANGED <<serverVars, listenVars>>
    /\ RenderNow

\* send(text): text is undefined for the Enter key and the send button
send(text) ==
    LET msg == IF text.def /\ text.s # <<>> THEN text.s ELSE Trim(input)
    IN  IF msg = <<>> \/ view.loading
        THEN /\ lastSend' = IF msg = <<>> THEN "empty" ELSE "busy"
             /\ UNCHANGED <<input, loading, error, suggestions, messages, history, view,
                            chatReqs, speaking, synth>>
        ELSE /\ Len(history) < MaxHistory
             /\ synth' = <<>>
             /\ speaking' = FALSE
             /\ messages' = Append(messages, [role |-> "user", text |-> Defined(msg), words |-> {}])
             /\ input' = <<>>
             /\ suggestions' = <<>>
             /\ callClaude(Defined(msg))
             /\ RenderNow
             /\ lastSend' = "sent"

\* Enter (without Shift) in the input box
PressEnter ==
    /\ OnChatScreen
    /\ send(Undefined)
    /\ UNCHANGED <<password, authenticated, started, timers, speakReqs, audios, audioRef>>
    /\ UNCHANGED <<serverVars, listenVars>>

\* the send button, disabled while !input.trim() || loading
ClickSend ==
    /\ OnChatScreen
    /\ Trim(input) # <<>>
    /\ ~view.loading
    /\ send(Undefined)
    /\ UNCHANGED <<password, authenticated, started, timers, speakReqs, audios, audioRef>>
    /\ UNCHANGED <<serverVars, listenVars>>

\* a suggested reply, shown while suggestions.length > 0 && !loading
ClickSuggestion ==
    /\ OnChatScreen
    /\ ~view.loading
    /\ \E i \in 1..Len(view.suggestions) : send(Defined(view.suggestions[i]))
    /\ UNCHANGED <<password, authenticated, started, timers, speakReqs, audios, audioRef>>
    /\ UNCHANGED <<serverVars, listenVars>>

\* ChatSettles with setLoading(false) at the end of the try block instead of
\* the finally block
ChatSettlesNoFinally(i, o) ==
    /\ chatReqs' = RemoveAt(chatReqs, i)
    /\ IF o.kind = "reject" \/ ~JSONparse(o.body).ok
       THEN /\ error' = ConnectError
            /\ UNCHANGED <<history, messages, suggestions, timers, loading>>
       ELSE LET raw == LeafOrEmpty(JSONparse(o.body).val, <<"content", "0", "text">>)
                parsed == ParseReply(raw)
            IN  /\ history' = Append(history, [role |-> "assistant", content |-> raw])
                /\ IF parsed.throws
                   THEN /\ error' = ConnectError
                        /\ UNCHANGED <<messages, suggestions, timers, loading>>
                   ELSE /\ messages' = Append(messages,
                               [role |-> "coach", text |-> parsed.message, words |-> parsed.words])
                        /\ suggestions' = parsed.suggestions
                        /\ timers' = Append(timers, Either(parsed.spoken, parsed.message))
                        /\ loading' = FALSE
                        /\ UNCHANGED error
    /\ UNCHANGED <<password, authenticated, started, input, view, speaking, speakReqs,
                   audios, audioRef, synth>>
    /\ lastSend' = "none"
    /\ UNCHANGED <<serverVars, listenVars>>

\* callClaude from the settling of its fetch with outcome o to its end
ChatSettles(i, o) ==
    /\ chatReqs' = RemoveAt(chatReqs, i)
    /\ IF o.kind = "reject" \/ ~JSONparse(o.body).ok
       THEN /\ error' = ConnectError
            /\ UNCHANGED <<history, messages, suggestions, timers>>
       ELSE LET raw == LeafOrEmpty(JSONparse(o.body).val, <<"content", "0", "text">>)
                parsed == ParseReply(raw)
            IN  /\ history' = Append(history, [role |-> "assistant", content |-> raw])
                /\ IF parsed.throws
                   THEN /\ error' = ConnectError
                        /\ UNCHANGED <<messages, suggestions, timers>>
                   ELSE /\ messages' = Append(messages,
                               [role |-> "coach", text |-> parsed.message, words |-> parsed.words])
                        /\ suggestions' = parsed.suggestions
                        /\ timers' = Append(timers, Either(parsed.spoken, parsed.message))
                        /\ UNCHANGED error
    /\ loading' = FALSE
    /\ UNCHANGED <<password, authenticated, started, input, view, speaking, speakReqs,
                   audios, audioRef, synth>>
    /\ lastSend' = "none"
    /\ UNCHANGED <<serverVars, listenVars>>

\* the fetch of a chat request in flight settles
ChatReply == \E i \in 1..Len(chatReqs), o \in ClientChatOutcomes : ChatSettles(i, o)

\* what React would render from the current state
Current ==
    [loading |-> loading, suggestions |-> suggestions, speaking |-> speaking,
     shown |-> Len(messages)]

\* React re-renders after state was set outside an event handler
Render ==
    /\ view # Current \/ viewListening # listening
    /\ view' = Current
    /\ viewListening' = listening
    /\ UNCHANGED <<password, authenticated, started, input, loading, error, suggestions,
                   messages, history, chatReqs, timers, speaking, speakReqs, audios,
                   audioRef, synth>>
    /\ lastSend' = "none"
    /\ UNCHANGED <<serverVars, listening, recognitionRef, recognitions, micStopped>>

\* speak(text) up to its fetch; text.replace throws on an undefined text,
\* before the try block
speak(text) ==
    IF ~text.def
    THEN UNCHANGED <<speaking, speakReqs>>
    ELSE /\ Len(speakReqs) + Len(synth) < MaxSpeak
         /\ speaking' = TRUE
         /\ speakReqs' = Append(speakReqs, StripBold(text.s))

\* the auto-speak timer of a reply fires
SpeakTimer ==
    /\ \E i \in 1..Len(timers) :
        /\ timers' = RemoveAt(timers, i)
        /\ speak(timers[i])
    /\ UNCHANGED <<password, authenticated, started, input, loading, error, suggestions,
                   messages, history, view, chatReqs, audios, audioRef, synth>>
    /\ lastSend' = "none"
    /\ UNCHANGED <<serverVars, listenVars>>

\* the "Hear this" button of a coach bubble
HearThis ==
    /\ OnChatScreen
    /\ \E i \in 1..view.shown : messages[i].role = "coach" /\ speak(messages[i].text)
    /\ UNCHANGED <<password, authenticated, started, input, loading, error, suggestions,
                   messages, history, chatReqs, timers, audios, audioRef, synth>>
    /\ lastSend' = "none"
    /\ UNCHANGED <<serverVars, listenVars>>
    /\ RenderNow

\* SpeakSettles without audioRef.current.pause()
SpeakSettlesNoPause(i, o, played) ==
    /\ speakReqs' = RemoveAt(speakReqs, i)
    /\ IF o.kind = "reject"
       THEN /\ speaking' = FALSE
            /\ UNCHANGED <<audios, audioRef, synth>>
       ELSE IF ~IsOk(o)
       THEN /\ synth' = Append(synth, speakReqs[i])
            /\ speaking' = FALSE
            /\ UNCHANGED <<audios, audioRef>>
       ELSE LET alive == SelectSeq(audios, LAMBDA a : a = "playing")
            IN  /\ audios' = Append(alive, played)
                /\ audioRef' = Len(alive) + 1
                /\ UNCHANGED <<speaking, synth>>
    /\ UNCHANGED <<password, authenticated, started, input, loading, error, suggestions,
                   messages, history, view, chatReqs, timers>>
    /\ lastSend' = "none"
    /\ UNCHANGED <<serverVars, listenVars>>

\* speak from the settling of its fetch with outcome o to its end; audio.play()
\* starts the playback, or the browser refuses it and the element stays paused
SpeakSettles(i, o, played) ==
    /\ speakReqs' = RemoveAt(speakReqs, i)
    /\ IF o.kind = "reject"
       THEN /\ speaking' = FALSE
            /\ UNCHANGED <<audios, audioRef, synth>>
       ELSE IF ~IsOk(o)
       THEN /\ synth' = Append(synth, speakReqs[i])
            /\ speaking' = FALSE
            /\ UNCHANGED <<audios, audioRef>>
       ELSE LET others == [k \in 1..Len(audios) |->
                              IF k = audioRef THEN "current" ELSE audios[k]]
                alive == SelectSeq(others, LAMBDA a : a = "playing")
                stopped == IF audioRef > 0 /\ audios[audioRef] = "playing"
                           THEN <<"paused">> ELSE <<>>
            IN  /\ audios' = alive \o stopped \o <<played>>
                /\ audioRef' = Len(alive) + Len(stopped) + 1
                /\ UNCHANGED <<speaking, synth>>
    /\ UNCHANGED <<password, authenticated, started, input, loading, error, suggestions,
                   messages, history, view, chatReqs, timers>>
    /\ lastSend' = "none"
    /\ UNCHANGED <<serverVars, listenVars>>

\* the fetch of a speak call in flight settles
SpeakReply ==
    \E i \in 1..Len(speakReqs), o \in ClientSpeakOutcomes, played \in {"playing", "paused"} :
        SpeakSettles(i, o, played)

\* audio.onended
AudioEnded ==
    /\ \E k \in 1..Len(audios) :
        /\ audios[k] = "playing"
        /\ audios' = [audios EXCEPT ![k] = "ended"]
    /\ speaking' = FALSE
    /\ UNCHANGED <<password, authenticated, started, input, loading, error, suggestions,
                   messages, history, view, chatReqs, timers, speakReqs, audioRef, synth>>
    /\ lastSend' = "none"
    /\ UNCHANGED <<serverVars, listenVars>>

\* audio.onerror
AudioError ==
    /\ \E k \in 1..Len(audios) :
        /\ audios[k] = "playing"
        /\ audios' = [audios EXCEPT ![k] = "ended"]
    /\ speaking' = FALSE
    /\ UNCHANGED <<password, authenticated, started, input, loading, error, suggestions,
                   messages, history, view, chatReqs, timers, speakReqs, audioRef, synth>>
    /\ lastSend' = "none"
    /\ UNCHANGED <<serverVars, listenVars>>

\* the on-device synthesizer finishes an utterance
SynthEnded ==
    /\ Len(synth) > 0
    /\ synth' = Tail(synth)
    /\ UNCHANGED <<password, authenticated, started, input, loading, error, suggestions,
                   messages, history, view, chatReqs, timers, speaking, speakReqs, audios,
                   audioRef>>
    /\ lastSend' = "none"
    /\ UNCHANGED <<serverVars, listenVars>>

\* the Stop button, shown while speaking: stopSpeaking
ClickStop ==
    /\ OnChatScreen
    /\ view.speaking
    /\ synth' = <<>>
    /\ speaking' = FALSE
    /\ UNCHANGED <<password, authenticated, started, input, loading, error, suggestions,
                   messages, history, chatReqs, timers, speakReqs, audios, audioRef>>
    /\ lastSend' = "none"
    /\ UNCHANGED <<serverVars, listenVars>>
    /\ RenderNow

ClientNext ==
    \/ TypePassword
    \/ ClickUnlock
    \/ PasswordEnter
    \/ ClickStart
    \/ TypeInput
    \/ PressEnter
    \/ ClickSend
    \/ ClickSuggestion
    \/ ChatReply
    \/ Render
    \/ SpeakTimer
    \/ HearThis
    \/ SpeakReply
    \/ AudioEnded
    \/ AudioError
    \/ SynthEnded
    \/ ClickStop

ClientSpec == ClientStart /\ [][ClientNext]_vars

\* the client with every chat request settling (fetch resolves or rejects)
\* and React re-rendering after every state change
ClientFairSpec ==
    /\ ClientStart
    /\ [][ClientNext]_vars
    /\ WF_vars(ChatReply)
    /\ WF_vars(Render)

----------------------------------------------------------------------------
(* Voice input of the browser client: the mic button and the events of the *)
(* SpeechRecognition objects it creates.                                    *)

MaxRecognitions == 2   \* SpeechRecognition objects created

MaxInput == 2          \* pieces of text in the input box that allow another transcript

Transcripts == {Str("Dia duit")}

\* state left alone by the voice-input handlers
chatVars ==
    <<password, authenticated, started, loading, error, suggestions, messages, history,
      chatReqs, timers, speaking, speakReqs, audios, audioRef, synth>>

\* recognition.start(): InvalidStateError on an object that has not ended
Started(recs, k) == IF recs[k] = "ended" THEN [recs EXCEPT ![k] = "starting"] ELSE recs

\* recognition.stop(): the object ends once the service has stopped
Stopped(recs, k) ==
    IF recs[k] \in {"starting", "running"} THEN [recs EXCEPT ![k] = "stopping"] ELSE recs

\* startListening: a new continuous recognition becomes the current one and
\* is started
startListening ==
    /\ Len(recognitions) < MaxRecognitions
    /\ recognitions' = Append(recognitions, "starting")
    /\ recognitionRef' = Len(recognitions) + 1
    /\ micStopped' = FALSE
    /\ UNCHANGED listening

\* stopListening: recognitionRef.current?.stop(); setListening(false)
stopListening ==
    /\ recognitions' = IF recognitionRef = 0 THEN recognitions
                       ELSE Stopped(recognitions, recognitionRef)
    /\ listening' = FALSE
    /\ micStopped' = TRUE
    /\ UNCHANGED recognitionRef

\* the mic button: onClick={listening ? stopListening : startListening}
ClickMic ==
    /\ OnChatScreen
    /\ IF viewListening THEN stopListening ELSE startListening
    /\ viewListening' = listening'
    /\ UNCHANGED <<chatVars, input, view, serverVars>>
    /\ lastSend' = "none"

\* recognition.onstart
RecognitionStart ==
    /\ \E k \in 1..Len(recognitions) :
        /\ recognitions[k] = "starting"
        /\ recognitions' = [recognitions EXCEPT ![k] = "running"]
    /\ listening' = TRUE
    /\ UNCHANGED <<chatVars, input, view, serverVars, viewListening, recognitionRef, micStopped>>
    /\ lastSend' = "none"

\* recognition.onresult: the transcript is appended to the input box
RecognitionResult ==
    /\ \E k \in 1..Len(recognitions), transcript \in Transcripts :
        /\ recognitions[k] \in {"running", "stopping"}
        /\ Len(input) < MaxInput
        /\ input' = input \o (IF input # <<>> THEN Str(" ") ELSE <<>>) \o transcript
    /\ UNCHANGED <<chatVars, view, serverVars, listenVars>>
    /\ lastSend' = "none"

\* recognition.onerror: logged; the recognition then ends
RecognitionError ==
    /\ \E k \in 1..Len(recognitions) :
        /\ recognitions[k] \in {"starting", "running"}
        /\ recognitions' = [recognitions EXCEPT ![k] = "stopping"]
    /\ UNCHANGED <<chatVars, input, view, serverVars, listening, viewListening,
                   recognitionRef, micStopped>>
    /\ lastSend' = "none"

\* recognition.onend, after stop(), an error or the service ending by itself:
\* if (recognitionRef.current) recognitionRef.current.start()
RecognitionEnd ==
    /\ \E k \in 1..Len(recognitions) :
        /\ recognitions[k] \in {"running", "stopping"}
        /\ LET ended == [recognitions EXCEPT ![k] = "ended"]
           IN  recognitions' = IF recognitionRef = 0 THEN ended
                               ELSE Started(ended, recognitionRef)
    /\ UNCHANGED <<chatVars, input, view, serverVars, listening, viewListening,
                   recognitionRef, micStopped>>
    /\ lastSend' = "none"

ListenNext ==
    \/ TypePassword
    \/ ClickUnlock
    \/ PasswordEnter
    \/ ClickStart
    \/ ClickMic
    \/ RecognitionStart
    \/ RecognitionResult
    \/ RecognitionError
    \/ RecognitionEnd
    \/ Render

\* the client from its start to the chat screen, and its voice input there
ListenSpec == ClientStart /\ [][ListenNext]_vars

----------------------------------------------------------------------------
(* Properties of the relays *)

RestHandlers == {"transcribe", "transcribeV1"}

TranscribeHandlers == {"transcribe", "transcribeV1", "transcribeSdk"}

SpeakHandlers == {"speak", "appSpeak"}

\* the provider answered with a non-success HTTP status
HttpFailure == outcome.kind = "response" /\ ~IsOk(outcome)

\* the error message of a JSON error envelope
ErrorOf(resp) == LeafOrEmpty(resp.json, <<"error">>)

\* the response embeds the provider's body: as text within a string of the
\* envelope, or as the parsed document under one of its keys
Embeds(resp, body) ==
    /\ resp.type = "json"
    /\ \/ \E p \in resp.json : Contains(p[2], body)
       \/ /\ JSONparse(body).ok
          /\ JSONparse(body).val # {}
          /\ \E k \in Keys(resp.json) : Nest(k, JSONparse(body).val) \subseteq resp.json

\* C1: whenever the LLM provider answers a chat call with a non-success
\* status, the relay answers with a server-error status whose body embeds the
\* provider's error payload, never with a success status.
ChatForwardsProviderFailure ==
    (handler = "chat" /\ pc = "done" /\ HttpFailure) =>
        /\ Len(responses) = 1
        /\ responses[1].status \in 500..599
        /\ Embeds(responses[1], outcome.body)

\* C2: whenever the text-to-speech provider answers with a non-success
\* status, the speech relay answers 500 with a JSON body that contains the
\* provider's error detail, whatever the provider's error body is.
SpeakForwardsProviderDetail ==
    (handler \in SpeakHandlers /\ pc = "done" /\ HttpFailure) =>
        /\ Len(responses) = 1
        /\ responses[1].status = 500
        /\ Embeds(responses[1], outcome.body)

\* the transcription provider reported failure: a non-success status (REST),
\* a cancelled recognition or the error callback (SDK)
TranscriptionFailed ==
    \/ handler \in RestHandlers /\ HttpFailure
    \/ handler = "transcribeSdk" /\ outcome.kind \in {"Canceled", "error"}

\* the error text the transcription provider reported
ProviderErrorText == IF handler \in RestHandlers THEN outcome.body ELSE outcome.msg

\* C3: a transcription POST with credentials and audio whose provider call
\* reports failure is answered with a server-error status whose error message
\* embeds the provider's error text, never with a 200 transcript.
TranscribeForwardsProviderFailure ==
    (handler \in TranscribeHandlers /\ pc = "done" /\ TranscriptionFailed) =>
        /\ Len(responses) = 1
        /\ responses[1].status \in 500..599
        /\ responses[1].type = "json"
        /\ Keys(responses[1].json) = {"error"}
        /\ Contains(ErrorOf(responses[1]), ProviderErrorText)

TranscribeFailureWitness ==
    /\ handler = "transcribe"
    /\ pc = "done"
    /\ env.AZURE_SPEECH_KEY /\ env.AZURE_SPEECH_REGION
    /\ audioOf(req.body) # <<>>
    /\ outcome = Replied(401, Str("Unauthorized"), <<>>)
    /\ responses = <<ResJson(502, Field("error", Str("Azure transcription failed: ") \o Str("Unauthorized")))>>

\* C4 as stated: every request whose method is not POST is rejected with a
\* 4xx status and causes no outbound provider call.
NonPostRejected ==
    (handler # "none" /\ req.method # "POST") =>
        /\ pc = "done"
        /\ Len(calls) = 0
        /\ Len(responses) = 1
        /\ responses[1].status \in 400..499

\* C4 amended: a request whose method is not POST causes no outbound provider
\* call and is rejected with 405, except an OPTIONS request to a REST
\* transcription handler, which is answered 200 with an empty body.
NonPostRejectedExceptPreflight ==
    (handler # "none" /\ req.method # "POST") =>
        /\ pc = "done"
        /\ Len(calls) = 0
        /\ Len(responses) = 1
        /\ IF handler \in RestHandlers /\ req.method = "OPTIONS"
           THEN responses[1].status = 200 /\ responses[1].type = "end"
           ELSE responses[1].status = 405 /\ ErrorOf(responses[1]) = Str("Method not allowed")

PreflightWitness ==
    /\ handler = "transcribe"
    /\ req.method = "OPTIONS"
    /\ pc = "done"
    /\ responses = <<ResEnd(200)>>
    /\ calls = <<>>

TranscribeResultShape ==
    (handler \in RestHandlers /\ pc = "done" /\ IsOk(outcome) /\ JSONparse(outcome.body).ok) =>
        LET result == JSONparse(outcome.body).val
            textPath == <<"combinedPhrases", "0", "text">>
            localePath == <<"phrases", "0", "locale">>
        IN  /\ Len(responses) = 1
            /\ responses[1].status = 200
            /\ responses[1].type = "json"
            /\ Keys(responses[1].json) = {"text", "language"}
            /\ Cardinality(responses[1].json) = 2
            /\ \A p \in responses[1].json :
                  /\ p[1] = <<"text">> =>
                        /\ \A q \in result : q[1] = textPath => p[2] = q[2]
                        /\ ~Has(result, textPath) => p[2] = <<>>
                  /\ p[1] = <<"language">> =>
                        /\ \A q \in result : q[1] = localePath => p[2] = q[2]
                        /\ ~Has(result, localePath) => p[2] = <<>>

TranscribeResultWitness ==
    /\ handler = "transcribe"
    /\ pc = "done"
    /\ outcome = Replied(200, Doc(AzureNoLocale, "compact"), <<>>)
    /\ responses = <<ResJson(200, Field("text", Str("hello")) \cup Field("language", <<>>))>>

\* the environment variables a handler reads are all set
Configured(h, e) ==
    IF h \in TranscribeHandlers THEN e.AZURE_SPEECH_KEY /\ e.AZURE_SPEECH_REGION
    ELSE IF h \in SpeakHandlers THEN e.ELEVENLABS_API_KEY
    ELSE e.ANTHROPIC_API_KEY

\* C7: in every handler a POST request that finds a needed API key or region
\* absent from the environment ends with a configuration server error and
\* makes no outbound provider call.
MissingCredentialIsConfigError ==
    (handler # "none" /\ req.method = "POST" /\ ~Configured(handler, env)) =>
        /\ pc = "done"
        /\ Len(calls) = 0
        /\ Len(responses) = 1
        /\ responses[1].status \in 500..599

\* the message a handler's catch block answers with when the exception
\* carries none
FixedMessage(h) ==
    IF h = "chat" THEN Str("Something went wrong")
    ELSE IF h \in SpeakHandlers THEN Str("Voice failed")
    ELSE Str("Transcription failed: ") \o Str("Unknown error")

\* C8 as stated: an exception raised while processing a POST is answered with
\* a server-error status whose message is a fixed string of the handler,
\* whatever the exception.
ExceptionGivesFixedMessage ==
    (pc = "done" /\ thrown.raised) =>
        /\ Len(responses) = 1
        /\ responses[1].status \in 500..599
        /\ ErrorOf(responses[1]) = FixedMessage(handler)

\* C8 amended: an exception raised while processing a POST is caught and
\* answered with 500; the message is the fixed string of the chat and speech
\* relays, and for the transcription relays the fixed prefix
\* 'Transcription failed: ' followed by the exception's message, or by
\* 'Unknown error' when it has none.
ExceptionAnsweredAtBoundary ==
    (pc = "done" /\ thrown.raised) =>
        /\ Len(responses) = 1
        /\ responses[1].status = 500
        /\ responses[1].type = "json"
        /\ Keys(responses[1].json) = {"error"}
        /\ ErrorOf(responses[1]) =
              IF handler \in TranscribeHandlers /\ thrown.msg # <<>>
              THEN Str("Transcription failed: ") \o thrown.msg
              ELSE FixedMessage(handler)

ExceptionWitness ==
    /\ handler = "transcribe"
    /\ pc = "done"
    /\ thrown = Threw(<<>>)
    /\ outcome.kind = "reject"
    /\ ErrorOf(responses[1]) = Str("Transcription failed: ") \o Str("Unknown error")

\* C9: each handler invocation sends exactly one response on every path and
\* makes at most one outbound provider call; nothing is sent while the
\* outbound call is pending.
OneResponsePerInvocation ==
    /\ Len(calls) <= 1
    /\ pc = "idle" => Len(responses) = 0 /\ Len(calls) = 0
    /\ pc = "awaiting" => Len(responses) = 0 /\ Len(calls) = 1
    /\ pc = "done" => Len(responses) = 1

OneResponseWitness ==
    /\ handler = "appSpeak"
    /\ pc = "done"
    /\ HttpFailure
    /\ Len(calls) = 1
    /\ responses = <<ResJson(500, Nest("error", ElevenLabsError))>>

----------------------------------------------------------------------------
(* Properties of the browser client *)

\* C10: under any interleaving of the start button, typed sends, Enter key
\* presses, suggestion clicks and arriving replies, at most one chat request
\* is in flight, and no step starts a request while one is in flight.
OneChatRequestInFlight ==
    /\ [](Len(chatReqs) <= 1)
    /\ [][Len(chatReqs) > 0 => Len(chatReqs') <= Len(chatReqs)]_vars

\* a send with a message was issued while the turn was in flight
SendWhileInFlightWitness ==
    /\ lastSend = "busy"
    /\ Len(chatReqs) = 1
    /\ loading

\* the relay answered a chat request with a reply: a success status and a
\* JSON body that holds a reply text
IsReply(o) ==
    /\ IsOk(o)
    /\ JSONparse(o.body).ok
    /\ Has(JSONparse(o.body).val, <<"content", "0", "text">>)

\* the reply text of a reply
ReplyText(o) == LeafOrEmpty(JSONparse(o.body).val, <<"content", "0", "text">>)

\* C11: whenever a chat call fails (the request is rejected, or the relay
\* answers with an error status or an error envelope instead of a reply), the
\* client's error state becomes the fixed user-facing error string.
ChatFailureShowsError ==
    [][\A i \in 1..Len(chatReqs), o \in ClientChatOutcomes :
          (ChatSettles(i, o) /\ ~IsReply(o)) => error' = ConnectError]_vars

\* C12: whenever the voice-synthesis call made by speak fails (the relay
\* answers with a non-success status, or the request is rejected), the text is
\* handed to the on-device speech synthesizer.
SpeakFailureFallsBack ==
    [][\A i \in 1..Len(speakReqs), o \in ClientSpeakOutcomes, played \in {"playing", "paused"} :
          (SpeakSettles(i, o, played) /\ ~IsOk(o)) =>
              synth' = Append(synth, speakReqs[i])]_vars

\* the text is the text of one JSON object
IsObjectText(t) == Len(t) = 1 /\ t[1].fmt \in Formats

\* C13: a reply text from which no JSON object can be parsed is shown as a
\* coach message that is the raw reply text, with an empty word list and
\* empty suggestions; a reply text that does parse is shown with its own
\* message, words and suggestions.
ReplyShownAsParsed ==
    [][\A i \in 1..Len(chatReqs), o \in ClientChatOutcomes :
          (ChatSettles(i, o) /\ IsReply(o)) =>
              LET raw == ReplyText(o)
                  own == JSONparse(BraceMatch(raw)).val
              IN  IF IsObjectText(BraceMatch(raw))
                  THEN /\ messages' = Append(messages,
                              [role |-> "coach", text |-> LeafOf(own, <<"message">>),
                               words |-> Sub(own, "words")])
                       /\ suggestions' = ListOf(Sub(own, "suggestions"))
                  ELSE /\ messages' = Append(messages,
                              [role |-> "coach", text |-> Defined(raw), words |-> {}])
                       /\ suggestions' = <<>>]_vars

\* a messages array that begins with a user entry and alternates the roles
Alternates(msgs) ==
    /\ Len(msgs) > 0
    /\ msgs[1].role = "user"
    /\ \A k \in 1..(Len(msgs) - 1) : msgs[k].role # msgs[k + 1].role

\* C15: after any sequence of start, sends, successful replies and failed
\* replies, every messages array sent to the chat relay begins with a
\* user-role entry and strictly alternates user and assistant roles.
MessagesAlternate == \A i \in 1..Len(chatReqs) : Alternates(chatReqs[i])

\* coach audio is playing: a fetched Audio element or the synthesizer
AudioPlaying == (\E k \in 1..Len(audios) : audios[k] = "playing") \/ Len(synth) > 0

\* C17: in every reachable state, whenever coach audio is playing the
\* speaking flag is true.
SpeakingWhilePlaying == AudioPlaying => speaking

\* C18: under any interleaving of speak calls at most one fetched Audio
\* element is playing: starting a new one pauses the one started before it.
OneAudioPlaying ==
    /\ Cardinality({k \in 1..Len(audios) : audios[k] = "playing"}) <= 1
    /\ \A k \in 1..Len(audios) : audios[k] = "playing" => k = audioRef

\* two speak calls overlapped: the second one's audio arrived while the
\* first one's was playing and a third call is still in flight
OverlappingSpeakWitness ==
    /\ audios = <<"paused", "playing">>
    /\ audioRef = 2
    /\ Len(speakReqs) = 1

\* C19: every call of callClaude eventually resets the loading flag to false,
\* whether the request resolves, is rejected or the reply cannot be parsed
\* (every request settling).
LoadingEventuallyReset == loading ~> ~loading

\* a rejected request has reset the flag: the turn of the user's message
\* failed and sending is possible again
LoadingResetWitness ==
    /\ ~loading
    /\ ~view.loading
    /\ error = ConnectError
    /\ Len(chatReqs) = 0
    /\ Len(history) > 0
    /\ history[Len(history)].role = "user"

\* C16: once the user stops listening, speech recognition ends and is not
\* restarted, and the listening flag stays false until the next
\* startListening.
StoppedStaysStopped ==
    micStopped =>
        /\ ~listening
        /\ \A k \in 1..Len(recognitions) : recognitions[k] \in {"stopping", "ended"}

----------------------------------------------------------------------------
(* Properties of the transcription relays: check order and the two versions *)

\* the stage at which a transcription handler stops a request, "call" when
\* the request passes the three checks
ClassOfRequest(r, e) ==
    IF r.method = "OPTIONS" THEN "OPTIONS"
    ELSE IF r.method # "POST" THEN "non-POST"
    ELSE IF ~e.AZURE_SPEECH_KEY \/ ~e.AZURE_SPEECH_REGION THEN "missing credentials"
    ELSE IF audioOf(r.body) = <<>> THEN "missing audio"
    ELSE "call"

\* C14 as stated: the stages run in the order method gating, credential
\* lookup, input validation, outbound call: a non-POST request gets the
\* method error even with missing credentials, a POST with credentials and
\* audio missing gets the configuration error, a POST with credentials but no
\* audio gets 400, and the provider is called only when all checks pass.
CheckOrder ==
    (handler \in TranscribeHandlers) =>
        LET c == ClassOfRequest(req, env)
        IN  /\ c \in {"OPTIONS", "non-POST"} => responses = <<MethodNotAllowed>>
            /\ c = "missing credentials" => responses = <<AzureNotConfigured>>
            /\ c = "missing audio" => responses = <<NoAudio>>
            /\ Len(calls) > 0 => c = "call"
            /\ (c = "call" /\ Len(calls) = 0) => thrown.raised

\* C14 amended: the same order, the method gate answering an OPTIONS request
\* to a REST handler with 200 and an empty body and every other non-POST
\* request with the method error 405.
CheckOrderWithPreflight ==
    (handler \in TranscribeHandlers) =>
        LET c == ClassOfRequest(req, env)
        IN  /\ c = "OPTIONS" =>
                  responses = IF handler \in RestHandlers THEN <<ResEnd(200)>>
                              ELSE <<MethodNotAllowed>>
            /\ c = "non-POST" => responses = <<MethodNotAllowed>>
            /\ c = "missing credentials" => responses = <<AzureNotConfigured>>
            /\ c = "missing audio" => responses = <<NoAudio>>
            /\ Len(calls) > 0 => c = "call"
            /\ (c = "call" /\ Len(calls) = 0) => thrown.raised

\* a POST that lacks the credentials and the audio got the configuration error
CheckOrderWitness ==
    /\ handler = "transcribe"
    /\ req.method = "POST"
    /\ ~env.AZURE_SPEECH_KEY
    /\ audioOf(req.body) = <<>>
    /\ pc = "done"
    /\ calls = <<>>
    /\ responses = <<AzureNotConfigured>>

\* what the provider reported, in the terms of either version
ClassOfOutcome(o) ==
    IF o.kind = "response"
    THEN IF ~IsOk(o) THEN "provider failure"
         ELSE IF ~JSONparse(o.body).ok THEN "other"
         ELSE IF LeafOrEmpty(JSONparse(o.body).val, <<"combinedPhrases", "0", "text">>) # <<>>
              THEN "speech recognised"
         ELSE "no speech recognised"
    ELSE IF o.kind = "RecognizedSpeech" THEN "speech recognised"
    ELSE IF o.kind = "NoMatch" THEN "no speech recognised"
    ELSE IF o.kind \in {"Canceled", "error"} THEN "provider failure"
    ELSE "other"

RequestClasses ==
    {"OPTIONS", "non-POST", "missing credentials", "missing audio", "speech recognised",
     "no speech recognised", "provider failure"}

\* what a caller can tell of an answer: its status and the fields of its body
Signature(resp) == <<resp.status, Keys(resp.json)>>

StartOf(h, r, e) ==
    IF h = "transcribe" THEN transcribeStart(r, e, NoThrow)
    ELSE IF h = "transcribeV1" THEN transcribeV1Start(r, e)
    ELSE sdkStart(r, e)

SettleOf(h, o) ==
    IF h = "transcribe" THEN transcribeSettle(o)
    ELSE IF h = "transcribeV1" THEN transcribeV1Settle(o)
    ELSE sdkSettle(o)

OutcomesOf(h) == IF h \in RestHandlers THEN AzureOutcomes ELSE SdkOutcomes

\* the signatures handler h answers requests of class c with
Signatures(h, c) ==
    {Signature(StartOf(h, r, e).responses[1]) :
        <<r, e>> \in {x \in TranscribeRequests \X Environments : ClassOfRequest(x[1], x[2]) = c}}
    \cup {Signature(SettleOf(h, o).responses[1]) :
              o \in {x \in OutcomesOf(h) : ClassOfOutcome(x) = c}}

\* the class of the request handled
RequestClass ==
    IF ClassOfRequest(req, env) # "call" THEN ClassOfRequest(req, env)
    ELSE ClassOfOutcome(outcome)

\* the handlers of the other version
OtherVersion(h) == IF h \in RestHandlers THEN {"transcribeSdk"} ELSE RestHandlers

\* C20 as stated: for every class of request the SDK version and the REST
\* version answer with the same status and the same body shape.
VersionsInterchangeable ==
    (handler \in TranscribeHandlers /\ pc = "done" /\ RequestClass \in RequestClasses) =>
        \A g \in OtherVersion(handler) :
            Signatures(g, RequestClass) = {Signature(responses[1])}

\* C20 amended: the two versions answer with the same status and body shape
\* to a non-POST request other than OPTIONS, to missing credentials, to
\* missing audio, to recognised speech and to no recognised speech; an OPTIONS
\* request gets 200 without a body from the REST version and 405 { error }
\* from the SDK version, and a provider failure gets { error } with 502 from
\* the REST version and with 500 from the SDK version.
VersionsAgreeExceptPreflightAndFailure ==
    (handler \in TranscribeHandlers /\ pc = "done" /\ RequestClass \in RequestClasses) =>
        IF RequestClass = "OPTIONS"
        THEN Signature(responses[1]) =
                 IF handler \in RestHandlers THEN <<200, {}>> ELSE <<405, {"error"}>>
        ELSE IF RequestClass = "provider failure"
        THEN Signature(responses[1]) =
                 IF handler \in RestHandlers THEN <<502, {"error"}>> ELSE <<500, {"error"}>>
        ELSE \A g \in OtherVersion(handler) :
                 Signatures(g, RequestClass) = {Signature(responses[1])}

\* the SDK version answered a recognition without speech as the REST version
\* answers an empty result
VersionsWitness ==
    /\ handler = "transcribeSdk"
    /\ pc = "done"
    /\ outcome.kind = "NoMatch"
    /\ responses = <<ResJson(200, Field("text", <<>>) \cup Field("language", <<>>))>>
    /\ Signatures("transcribe", "no speech recognised") = {<<200, {"text", "language"}>>}

----------------------------------------------------------------------------
(* Properties of the password gate *)

\* nothing of the conversation exists: no request was issued, no screen
\* behind the gate was shown, nothing was said or played
BehindTheGate ==
    /\ ~started
    /\ chatReqs = <<>> /\ speakReqs = <<>>
    /\ history = <<>> /\ messages = <<>>
    /\ timers = <<>> /\ audios = <<>> /\ synth = <<>>
    /\ ~loading /\ ~speaking /\ error = <<>> /\ input = <<>>

\* C21: no chat or voice request is issued and no conversation screen is
\* reachable until the entered password equals the hardcoded password; the
\* authenticated flag only changes from false to true, on that match, and
\* never reverts.
PasswordGate ==
    /\ [](~authenticated => BehindTheGate)
    /\ [](authenticated => password = PASSWORD)
    /\ [][authenticated' # authenticated =>
            (~authenticated /\ authenticated' /\ password = PASSWORD)]_vars

\* the gate was passed with the hardcoded password and the first chat
\* request was issued from the start screen
PasswordGateWitness ==
    /\ authenticated
    /\ password = PASSWORD
    /\ started
    /\ Len(chatReqs) = 1
    /\ chatReqs[1] = <<StartMessage>>

====
